---- MODULE Spec2Model ----
(***************************************************************************)
(* Model of the natural-language-to-SQL analytics tool                     *)
(* (src/lib/ai/tools/wine-data-analytics.ts, wineDataAnalytics.execute).   *)
(*                                                                         *)
(* One behaviour is one invocation of the tool.  Every await of the code   *)
(* (generateObject, db.execute, generateText) is a point where the         *)
(* invocation is suspended; the answer of the collaborator (LLM, store)    *)
(* is an input of the action that resumes it.                              *)
(***************************************************************************)
EXTENDS Integers, Sequences, FiniteSets, TLC

\* ------------------------------------------------------------------ bounds
\* Largest number of whitespace tokens around a generated text.
MaxPad == 1
\* Largest number of rows the store returns for one query.
MaxRows == 2

\* ------------------------------------------------------- program constants
maxAttempts == 10

\* ------------------------------------------------------------- query text
\* A text is a sequence of tokens; WS is one whitespace character.
WS == " "

\* The owner-scoping predicate the prompts ask for: "userId" = '<uid>'
OwnerPredicate(uid) == "userId = '" \o uid \o "'"

\* The user id of the session that invokes the tool.
SessionUser == "u1"

\* Statements: a read of every owner's rows, a read scoped to the session's
\* user, and a mutation.
Bodies ==
  { <<"SELECT">>, <<"SELECT", OwnerPredicate(SessionUser)>>, <<"DELETE">> }

RECURSIVE Pad(_)
Pad(n) == IF n = 0 THEN <<>> ELSE <<WS>> \o Pad(n - 1)

\* The texts an LLM call may return: a statement, possibly surrounded by
\* whitespace.
Pads == { p \in (0..MaxPad) \X (0..MaxPad) : p[1] + p[2] <= MaxPad }

Texts == { Pad(p[1]) \o b \o Pad(p[2]) : p \in Pads, b \in Bodies }

RECURSIVE TrimStart(_)
TrimStart(s) == IF s # <<>> /\ Head(s) = WS THEN TrimStart(Tail(s)) ELSE s

RECURSIVE TrimEnd(_)
TrimEnd(s) ==
  IF s # <<>> /\ s[Len(s)] = WS THEN TrimEnd(SubSeq(s, 1, Len(s) - 1)) ELSE s

\* String.prototype.trim
Trim(s) == TrimEnd(TrimStart(s))

\* ------------------------------------------------------------ collaborators
\* Messages of the errors db.execute can throw.
QueryErrors == { "syntax error" }
StoreUnavailable == { "ECONNREFUSED" }
ErrMsgs == QueryErrors \cup StoreUnavailable

\* Message of the error a failed LLM call throws.
LLMError == "AI_APICallError"

\* Values of a row's column; Undefined is what row[f] gives for an absent f.
Undefined == "<undefined>"
Null == "<null>"

RowSet ==
  { [producer |-> "A", count |-> "2", type |-> "Red"],
    [producer |-> "C", count |-> "0", type |-> ""],
    [count |-> "3"] }

RECURSIVE SeqsUpTo(_, _)
SeqsUpTo(S, n) ==
  IF n = 0 THEN { <<>> }
  ELSE LET shorter == SeqsUpTo(S, n - 1)
       IN shorter \cup { Append(s, e) : s \in { t \in shorter : Len(t) = n - 1 }, e \in S }

\* What db.execute resolves to.
Results == SeqsUpTo(RowSet, MaxRows)

\* What generateObject resolves to (analyticsConfigSchema).
Configs ==
  [ sqlQuery : Texts,
    chartConfig : [ type : {"bar"}, title : {"Bottles by producer"},
                    description : {"count per producer"},
                    xField : {"producer"}, yField : {"count"},
                    colorField : {Undefined, "type"} ],
    insights : {"narrative hint"} ]

\* What the insight generateText resolves to.
InsightTexts == { "", "enhanced insights" }

NoConfig == [ sqlQuery |-> <<>> ]
NoCall == [ pending |-> FALSE ]

\* ------------------------------------------------------------------- state
VARIABLES
  pc,             \* where the invocation is suspended
  userId,         \* session?.user?.id (Undefined when there is none)
  config,         \* const { object: config }
  finalQuery,     \* let finalQuery
  attempts,       \* let attempts
  data,           \* let data
  correctedQuery, \* const { text: correctedQuery } of the latest repair call
  fixPrompt,      \* the prompt of the repair call in flight
  caught,         \* the error the outer catch received and logged
  ret,            \* how execute ended: the returned value or the thrown error
  execCount,      \* number of db.execute calls issued
  execOutcomes,   \* outcome kind of each completed db.execute call
  lastExec,       \* text, outcome and rows of the latest db.execute call
  plannerCalls,   \* number of generateObject calls issued
  repairCalls,    \* number of repair generateText calls issued
  insightCalls,   \* number of insight generateText calls issued
  insightFailed,  \* the insight generateText call threw
  failedCall      \* which LLM call of the invocation rejected, if any

analyticsVars ==
  << pc, userId, config, finalQuery, attempts, data, correctedQuery,
     fixPrompt, caught, ret, execCount, execOutcomes, lastExec,
     plannerCalls, repairCalls, insightCalls, insightFailed, failedCall >>

\* State of the model of two invocations of the tool in one process.
VARIABLES
  locals,         \* per closure of execute: config, finalQuery, attempts, data
  call,           \* per invocation: position, result, what it sent and received
  deterministic,  \* the LLM and the store answer equal requests equally
  memo            \* the answers given so far, when deterministic

pairVars == << locals, call, deterministic, memo >>

\* State of the model of getTastingNotes.
VARIABLES
  tnPc,            \* position in getTastingNotes
  input,           \* the argument of getTastingNotes
  wineTable,       \* the rows of the wine table
  w,               \* wineRecord[0]
  wineResponse,    \* wineResponse.ok, once the wine page was fetched
  bottleImageUrl,  \* the image url taken from the wine page
  tnRet,           \* what getTastingNotes returned or threw
  tnOutcome        \* the path getTastingNotes took

tnVars == << tnPc, input, wineTable, w, wineResponse, bottleImageUrl, tnRet, tnOutcome >>

\* State of the model of the CellarTracker route.
VARIABLES
  rPc,          \* position of the request in POST; "idle" between requests
  session,      \* session.user.id of the request
  username,     \* username of the request body
  password,     \* password of the request body
  fetched,      \* response and responseText of the fetch to CellarTracker
  wines,        \* the wines parsed from the CSV
  response,     \* the response of the last request
  effects,      \* the calls of the request, in order
  wineRows,     \* the rows of the wine table
  credentials,  \* the row of the credentials table of the session user
  now,          \* the clock, in hours
  requests      \* the number of requests made

routeVars ==
  << rPc, session, username, password, fetched, wines, response, effects,
     wineRows, credentials, now, requests >>

\* State of the model of concurrent saveCellarData calls.
VARIABLES
  before,    \* the rows of the Wine table before the calls
  table,     \* the rows of the Wine table, a batch of one insert at a time
  saves,     \* per call of saveCellarData: position, arguments, fetchedAt, i
  clock,     \* what new Date() gives
  readBack   \* what getCellarData returned after the calls

saveVars == << before, table, saves, clock, readBack >>

\* State of the model of the ToolResultSummary component.
VARIABLES
  summaryCache,  \* the module-level Map of summaries
  inst,          \* per component instance: props, cacheKey, summary, isLoading
  inflight,      \* the requests to /api/summarize-tool-result not yet answered
  issued,        \* the number of requests issued
  renders        \* the number of renders with new props

uiVars == << summaryCache, inst, inflight, issued, renders >>

vars == << analyticsVars, pairVars, tnVars, routeVars, saveVars, uiVars >>

\* The variables the model of a single invocation leaves alone.
notAnalyticsVars == << pairVars, tnVars, routeVars, saveVars, uiVars >>

\* The variables the model of two invocations leaves alone.
notPairVars == << analyticsVars, tnVars, routeVars, saveVars, uiVars >>

\* The variables the model of getTastingNotes leaves alone.
notTnVars == << analyticsVars, pairVars, routeVars, saveVars, uiVars >>

\* The variables the model of the CellarTracker route leaves alone.
notRouteVars == << analyticsVars, pairVars, tnVars, saveVars, uiVars >>

\* The variables the model of saveCellarData leaves alone.
notSaveVars == << analyticsVars, pairVars, tnVars, routeVars, uiVars >>

\* The variables the model of ToolResultSummary leaves alone.
notUiVars == << analyticsVars, pairVars, tnVars, routeVars, saveVars >>

UserIds == { Undefined, SessionUser }

\* ---------------------------------------------------------------- messages
NotAuthenticatedMsg == "User not authenticated. Please connect to CellarTracker first."
FailedMsg == "Failed to analyze wine data. Please try rephrasing your query."

SuccessFields == { "type", "query", "data", "chartData", "config", "insights", "summary" }

Returned(v) == [ kind |-> "return", value |-> v ]
Thrown(e) == [ kind |-> "throw", value |-> e ]
NotEnded == [ kind |-> "pending" ]

\* ----------------------------------------------------------------- helpers
\* row[f] of JavaScript: the column's value, or undefined when f is absent.
Get(row, f) == IF f \in DOMAIN row THEN row[f] ELSE Undefined

\* JavaScript truthiness of the values of this model.
Truthy(v) == v \notin { Undefined, Null, "" }

\* Variant: the color key is set whenever a colorField is configured.
ShapeRowAlwaysColor(row, cc) ==
  LET colorKeys == IF Truthy(cc.colorField) THEN { cc.colorField } ELSE {}
  IN [ f \in { cc.xField, cc.yField } \cup colorKeys |-> Get(row, f) ]

\* Step 3, the callback of data.map: one chart item per row.
ShapeRow(row, cc) ==
  LET colorKeys == IF Truthy(cc.colorField) /\ Truthy(Get(row, cc.colorField))
                   THEN { cc.colorField } ELSE {}
  IN [ f \in { cc.xField, cc.yField } \cup colorKeys |-> Get(row, f) ]

\* Variant: the items come out in reverse row order.
ChartDataReversed(rows, cc) ==
  [ i \in 1..Len(rows) |-> ShapeRow(rows[Len(rows) + 1 - i], cc) ]

\* Variant: rows that lack the x or the y field are dropped.
ChartDataFiltered(rows, cc) ==
  LET kept == SelectSeq(rows, LAMBDA r : cc.xField \in DOMAIN r /\ cc.yField \in DOMAIN r)
  IN [ i \in 1..Len(kept) |-> ShapeRow(kept[i], cc) ]

\* Step 3: const chartData = data.map(...)
ChartData(rows, cc) == [ i \in 1..Len(rows) |-> ShapeRow(rows[i], cc) ]

\* Variant: the initial query is trimmed like a repaired one.
InitialQueryTrimmed(cfg) == Trim(cfg.sqlQuery)

\* let finalQuery = config.sqlQuery
InitialQuery(cfg) == cfg.sqlQuery

\* finalQuery = correctedQuery.trim()
RepairedQuery(text) == Trim(text)

\* Variant: the loop is left one attempt early.
LoopCondOneShort(a) == a < maxAttempts - 1

\* while (attempts < maxAttempts)
LoopCond(a) == a < maxAttempts

\* Variant: the failure is not counted.
NextAttemptsStuck(a) == a

\* attempts++
NextAttempts(a) == a + 1

\* Variant: the give-up test is off by one.
GiveUpOffByOne(a) == a > maxAttempts

\* if (attempts >= maxAttempts) throw error
GiveUp(a) == a >= maxAttempts

\* Variant: giving up throws a new error instead of the caught one.
GiveUpErrorWrapped(msg) == "Max attempts exceeded"

\* throw error: what the retry loop throws when it gives up
GiveUpError(msg) == msg

\* Variant: the repair prompt quotes the planner's query, not the failing one.
FixPromptInitialQuery(msg, q, cfg) ==
  [ pending |-> TRUE, error |-> msg, query |-> cfg.sqlQuery ]

\* const fixPrompt: the failing query and the error message it got
FixPrompt(msg, q, cfg) == [ pending |-> TRUE, error |-> msg, query |-> q ]

\* insights: enhancedInsights || config.insights
Insights(enhancedInsights, cfg) ==
  IF Truthy(enhancedInsights) THEN enhancedInsights ELSE cfg.insights

\* Variant: the success object reports the planner's query.
SuccessResultInitialQuery(q, rows, cfg, enhancedInsights) ==
  [ type |-> "dynamic-wine-analytics",
    query |-> cfg.sqlQuery,
    data |-> rows,
    chartData |-> ChartData(rows, cfg.chartConfig),
    config |-> cfg.chartConfig,
    insights |-> Insights(enhancedInsights, cfg),
    summary |-> [ points |-> Len(rows), title |-> cfg.chartConfig.title ] ]

\* The object returned on success.
SuccessResult(q, rows, cfg, enhancedInsights) ==
  [ type |-> "dynamic-wine-analytics",
    query |-> q,
    data |-> rows,
    chartData |-> ChartData(rows, cfg.chartConfig),
    config |-> cfg.chartConfig,
    insights |-> Insights(enhancedInsights, cfg),
    summary |-> [ points |-> Len(rows), title |-> cfg.chartConfig.title ] ]

\* Variant: the outer catch rethrows.
OuterCatchRethrow(err) == Thrown(err)

\* Variant: the outer catch returns the message of the error it caught.
OuterCatchLeak(err) == Returned([ error |-> err ])

\* The outer catch: log the error, return the fixed message.
OuterCatch(err) == Returned([ error |-> FailedMsg ])

\* ------------------------------------------------------- two invocations
\* The invocations of the tool that run in one process.
Invocations == { 1, 2 }

\* One set of bindings at module level, shared by every invocation.
SlotShared(i) == 1

\* The closure of execute that holds the bindings of invocation i: every
\* call of execute creates its own config, data, finalQuery and attempts.
Slot(i) == i

\* The session users of the two invocations.
PairUsers == { SessionUser, "u2" }

\* The texts the LLM returns to the two invocations.
PairTexts == { <<"SELECT">>, <<WS, "SELECT", OwnerPredicate(SessionUser)>> }

\* The texts the two invocations can send to the store.
PairExecTexts == PairTexts \cup { Trim(t) : t \in PairTexts }

PairConfigs ==
  { c \in Configs : c.sqlQuery \in PairTexts /\ c.chartConfig.colorField = "type" }

PairResults ==
  { <<>>,
    << [producer |-> "C", count |-> "0", type |-> ""],
       [producer |-> "A", count |-> "2", type |-> "Red"] >> }

PairErrMsgs == QueryErrors

PairInsightTexts == { "enhanced insights" }

\* Answers of the collaborators.
OkResp(v) == [ kind |-> "ok", value |-> v ]
ErrResp(msg) == [ kind |-> "err", msg |-> msg ]
FailResp == [ kind |-> "fail" ]
Unset == [ kind |-> "unset" ]

\* What tells two repair prompts apart: the user id in the schema
\* description, the error message and the failing query.
RepairKeys == PairUsers \X PairErrMsgs \X PairExecTexts

NoLocals == [ config |-> NoConfig, finalQuery |-> <<>>, attempts |-> 0, data |-> <<>> ]

NewCall(u) ==
  [ pc |-> "start", userId |-> u, ret |-> NotEnded,
    sent |-> <<>>, prompt |-> NoCall,
    planned |-> FALSE, planResp |-> NoConfig,
    repaired |-> FALSE, repairResp |-> <<>>,
    gotRows |-> FALSE, rows |-> <<>>,
    gotInsight |-> FALSE, insight |-> "",
    failures |-> 0, execs |-> 0 ]

NoMemo ==
  [ plan |-> [ u \in PairUsers |-> Unset ],
    repair |-> [ k \in RepairKeys |-> Unset ],
    store |-> [ t \in PairExecTexts |-> Unset ] ]

\* The two-invocation model is not running.
PairIdle ==
  /\ locals = [ i \in Invocations |-> NoLocals ]
  /\ call = [ i \in Invocations |-> NewCall(Undefined) ]
  /\ deterministic = FALSE
  /\ memo = NoMemo

\* -------------------------------------------------------- getTastingNotes
\* a || b of JavaScript.
Or(a, b) == IF Truthy(a) THEN a ELSE b

\* Wine ids given to getTastingNotes.
IWines == { "3907074", "42", "nonexistent" }

\* Rows of the wine table: one with every column filled, one with none.
WineRows ==
  { [ iWine |-> "3907074", wine |-> "Kistler Chardonnay", producer |-> "Kistler",
      vintage |-> "2019", region |-> "Sonoma", masterVarietal |-> "Chardonnay",
      varietal |-> "Chardonnay", ct |-> "92.1", cNotes |-> "77",
      bottleNote |-> "gift" ],
    [ iWine |-> "42", wine |-> Null, producer |-> Null,
      vintage |-> Null, region |-> Null, masterVarietal |-> Null,
      varietal |-> "Gamay", ct |-> Null, cNotes |-> Null,
      bottleNote |-> Null ] }

NoWine == [ iWine |-> Null ]

\* What the four image strategies take from the wine page.
ImageUrls == { Null, "https://www.cellartracker.com/labels/1.jpg" }

\* What the two note parsers take from the notes page.
ParsedNotes ==
  { <<>>,
    << [ date |-> "1/2/2020", score |-> "92", note |-> "Yummy. Buttery and delicious",
         reviewer |-> "pholt" ] >>,
    << [ date |-> Undefined, score |-> Undefined, note |-> "Bright and mineral",
         reviewer |-> Undefined ],
       [ date |-> "1/2/2020", score |-> "92", note |-> "Yummy. Buttery and delicious",
         reviewer |-> "pholt" ] >> }

\* What the community score pattern takes from the notes page.
ScoreMatches == { Null, "91.5" }

\* Status of a notes response that is not ok.
NotOkStatuses == { "403", "500" }

WineUrl(id) == "https://www.cellartracker.com/wine.asp?iWine=" \o id

\* wineRecord.length === 0.
NotFoundResult(id) ==
  [ iWine |-> id, notes |-> Null, error |-> "Wine not found in database" ]

\* The wine data both early returns carry: the database record, no notes.
RecordOnly(id, rec) ==
  [ iWine |-> id,
    title |-> Or(rec.wine, "Wine"),
    producer |-> Or(rec.producer, "Unknown Producer"),
    vintage |-> Or(rec.vintage, "Unknown Vintage"),
    region |-> Or(rec.region, "Unknown Region"),
    varietals |-> Or(Or(rec.masterVarietal, rec.varietal), "Unknown Varietal"),
    bottleImageUrl |-> Null,
    tastingNotes |-> <<>> ]

\* The fetch of the notes page rejected.
NetworkErrorResult(id, rec) ==
  [ success |-> "true",
    wineData |-> RecordOnly(id, rec),
    message |-> "Found wine details for " \o Or(rec.wine, "wine")
                  \o " but couldn't fetch tasting notes due to network error." ]

\* The notes response is not ok.
NotOkResult(id, rec, status) ==
  [ success |-> "true",
    wineData |-> RecordOnly(id, rec),
    message |-> "Found wine details for " \o Or(rec.wine, "wine")
                  \o " but tasting notes are not available (HTTP " \o status \o ")." ]

\* The notes page was fetched and parsed.
ScrapedResult(id, rec, img, notes, score) ==
  [ success |-> "true",
    wineData |->
      [ iWine |-> id,
        title |-> Or(rec.wine, "Wine"),
        producer |-> Or(rec.producer, "Unknown Producer"),
        vintage |-> Or(rec.vintage, "Unknown Vintage"),
        region |-> Or(rec.region, "Unknown Region"),
        varietals |-> Or(Or(rec.masterVarietal, rec.varietal), "Unknown Varietal"),
        bottleImageUrl |-> Or(img, Null),
        tastingNotes |-> notes,
        professionalReviews |-> <<>>,
        communityScore |-> Or(Or(score, rec.ct), Null),
        communityNotes |-> Or(rec.cNotes, Null),
        bottleNote |-> Or(rec.bottleNote, Null) ],
    message |-> "Found " \o ToString(Len(notes)) \o " tasting notes for "
                  \o Or(rec.wine, "wine") \o " from CellarTracker." ]

\* The catch of getTastingNotes: the database record.
FallbackResult(id, rec) ==
  [ iWine |-> id,
    wine |-> rec.wine,
    vintage |-> rec.vintage,
    producer |-> rec.producer,
    region |-> rec.region,
    varietal |-> Or(rec.masterVarietal, rec.varietal),
    bottleImageUrl |-> Null,
    communityNotes |-> rec.cNotes,
    bottleNote |-> rec.bottleNote,
    scrapedTastingNotes |-> <<>>,
    professionalReviews |-> <<>>,
    communityScore |-> rec.ct,
    cellarTrackerUrl |-> WineUrl(id),
    winePageUrl |-> WineUrl(id),
    success |-> "false",
    error |-> "Failed to scrape CellarTracker page, using cached data" ]

\* getTastingNotes has not been called.
TnStart ==
  /\ tnPc = "select"
  /\ w = NoWine
  /\ wineResponse = Undefined
  /\ bottleImageUrl = Null
  /\ tnRet = NotEnded
  /\ tnOutcome = "none"

\* The model of getTastingNotes is not running.
TnIdle ==
  /\ input = Undefined
  /\ wineTable = {}
  /\ TnStart

\* ------------------------------------------------------ CellarTracker route
\* Requests made in one run.
MaxRequests == 2

\* The clock stops here.
MaxClock == 36

\* The clock advances in steps of this many hours.
TickHours == 12

\* getCellarData(userId, hoursOld = 24).
hoursOld == 24

\* csvText.trim().length < 10.
minCsvLength == 10

NL == "\n"

\* The CellarTracker accounts and their passwords.
Accounts == { "alice", "bob" }
PasswordOf(acct) == IF acct = "alice" THEN "pa" ELSE "pb"

\* The fields of a request body.
Usernames == Accounts \cup { Undefined }
Passwords == { PasswordOf(a) : a \in Accounts } \cup { "" }

\* The inventory export of an account.
CsvOf(acct) ==
  << "iWine", ",", "Wine", NL, "1", ",", acct \o " Pinot", NL >>

EmptyCsv == << "iWine", ",", "Wine" >>

\* What CellarTracker answers when it does not accept the credentials, or fails.
ErrorTexts ==
  { << "<html>", "<body>", "not logged into CellarTracker" >>,
    << WS, "<", "error" >>,
    << "Wine" >>,
    << "a", ",", "b" >>,
    << "Service", ",", "unavailable" >> }

\* A plain-text answer that is not an inventory export.
BusyText == << "Wine", ",", "cellar", ",", "busy" >>

\* Tokens that begin with the character <.
LtTokens == { "<", "<html>", "<body>" }

\* response and responseText of a fetch with these credentials.
FetchResults(u, p) ==
  { [ ok |-> TRUE, status |-> "200", text |-> t ] :
      t \in ErrorTexts \cup { EmptyCsv }
              \cup (IF u \in Accounts /\ p = PasswordOf(u) THEN { CsvOf(u) } ELSE {}) }
  \cup { [ ok |-> TRUE, status |-> "200", text |-> BusyText ] }
  \cup { [ ok |-> FALSE, status |-> "500", text |-> t ] :
           t \in { << "Service", ",", "unavailable" >>, BusyText } }

NoFetch == [ ok |-> FALSE, status |-> "none", text |-> <<>> ]

\* text.includes(s).
Includes(text, s) == \E i \in DOMAIN text : text[i] = s

\* text.length.
RECURSIVE TextLen(_)
TextLen(text) == IF text = <<>> THEN 0 ELSE Len(Head(text)) + TextLen(Tail(text))

\* text.trim().startsWith('<').
StartsWithLt(text) == Trim(text) # <<>> /\ Head(Trim(text)) \in LtTokens

\* Variant: only a page with an html tag is taken for an error page.
IsErrorHtmlTagOnly(text) == Includes(text, "<html>")

\* CellarTracker returned an error page.
IsErrorHtml(text) ==
  \/ Includes(text, "<html>")
  \/ Includes(text, "not logged into CellarTracker")
  \/ Includes(text, "<body>")
  \/ StartsWithLt(text)

\* Variant: a comma is enough.
IsValidCsvCommaOnly(text) == Includes(text, ",")

\* The text passes for CSV with column headers.
IsValidCsv(text) ==
  ~ ( \/ ~Includes(text, ",")
      \/ TextLen(Trim(text)) < minCsvLength
      \/ ~Includes(text, "Wine") )

\* text.split(sep).
RECURSIVE Split(_, _)
Split(text, sep) ==
  IF \E i \in DOMAIN text : text[i] = sep
  THEN LET i == CHOOSE k \in DOMAIN text :
                  text[k] = sep /\ \A j \in 1..(k - 1) : text[j] # sep
       IN << SubSeq(text, 1, i - 1) >> \o Split(SubSeq(text, i + 1, Len(text)), sep)
  ELSE << text >>

\* The cell of a line: the first token of the field, or ''.
Cell(fields, i) ==
  IF i \in DOMAIN fields /\ fields[i] # <<>> THEN Head(fields[i]) ELSE ""

\* line.match(/(".*?"|[^,]+)/g): the non-empty fields of the line.
Values(line) == SelectSeq(Split(line, ","), LAMBDA f : f # <<>>)

\* One wine per non-blank line after the header line, a value per header.
ParseCsv(text) ==
  LET lines == Split(text, NL)
      headers == Split(lines[1], ",")
      body == SelectSeq(Tail(lines), LAMBDA l : Trim(l) # <<>>)
      wineOf(l) == [ h \in { Cell(headers, i) : i \in DOMAIN headers } |->
                       LET i == CHOOSE k \in DOMAIN headers : Cell(headers, k) = h
                       IN Cell(Values(l), i) ]
  IN [ n \in DOMAIN body |-> wineOf(body[n]) ]

\* The rows saveCellarData inserts.
WinesToInsert(uid, ws, at) ==
  { [ userId |-> uid, fetchedAt |-> at, n |-> n,
      iWine |-> Or(Get(ws[n], "iWine"), Null),
      wine |-> Or(Get(ws[n], "Wine"), Null) ] : n \in DOMAIN ws }

\* saveCellarData: delete the user's rows, insert the new ones; the delete or
\* the insert can reject.
SaveCellarData(rows, uid, ws, at, outcome) ==
  LET others == { r \in rows : r.userId # uid }
  IN CASE outcome = "delete rejects" -> rows
       [] outcome = "insert rejects" -> others
       [] OTHER -> others \cup WinesToInsert(uid, ws, at)

SaveOutcomes == { "ok", "delete rejects", "insert rejects" }

Max(S) == CHOOSE x \in S : \A y \in S : y <= x

\* getCellarData: the rows of the user's latest fetch not older than hoursOld.
GetCellarData(rows, uid, at) ==
  LET recent == { r \in rows : r.userId = uid /\ r.fetchedAt >= at - hoursOld }
  IN IF recent = {}
     THEN [ found |-> FALSE, data |-> {}, fetchedAt |-> 0 ]
     ELSE LET latest == Max({ r.fetchedAt : r \in recent })
          IN [ found |-> TRUE,
               data |-> { r \in rows : r.userId = uid /\ r.fetchedAt = latest },
               fetchedAt |-> latest ]

NoCredentials == [ username |-> Null, password |-> Null ]

NoResponse == [ status |-> "none", body |-> [ pending |-> "true" ] ]

ErrorResponse(status, msg) == [ status |-> status, body |-> [ error |-> msg ] ]

DataResponse(ws, at, cached) ==
  [ status |-> "200", body |-> [ data |-> ws, fetchedAt |-> at, cached |-> cached ] ]

\* No request is being handled.
NoRequest ==
  /\ rPc = "idle"
  /\ session = Undefined
  /\ username = Undefined
  /\ password = ""
  /\ fetched = NoFetch
  /\ wines = <<>>
  /\ effects = <<>>

RouteStart ==
  /\ NoRequest
  /\ response = NoResponse
  /\ wineRows = {}
  /\ credentials = NoCredentials
  /\ now = 0
  /\ requests = 0

\* The model of the route is not running.
RouteIdle == RouteStart

\* --------------------------------------------------------- saveCellarData
\* Batches of the longest data array.
MaxBatches == 3

\* const BATCH_SIZE = 100
BATCH_SIZE == 100

\* The calls of saveCellarData that run at the same time.
SaveCalls == { 1, 2 }

SaveUsers == { SessionUser, "u2" }

\* data.length: no wine, one wine, full batches, full batches and one wine.
DataLens ==
  { 0, 1 } \cup { k * BATCH_SIZE : k \in 1..(MaxBatches - 1) }
           \cup { k * BATCH_SIZE + 1 : k \in 1..(MaxBatches - 1) }

Min(a, b) == IF a < b THEN a ELSE b

\* Math.ceil(winesToInsert.length / BATCH_SIZE)
TotalBatches(len) == (len + BATCH_SIZE - 1) \div BATCH_SIZE

\* The rows one insert adds: winesToInsert.slice(i, i + BATCH_SIZE) of call c,
\* the elements i+1 .. hi of its data, each a row with a fresh id.
Batch(uid, at, c, i, len) ==
  [ userId |-> uid, fetchedAt |-> at, call |-> c,
    lo |-> i + 1, hi |-> Min(i + BATCH_SIZE, len) ]

\* One row per element of the data of call c.
AllBatches(uid, at, c, len) ==
  { Batch(uid, at, c, k * BATCH_SIZE, len) : k \in 0..(TotalBatches(len) - 1) }

\* Variant: the delete removes nothing.
DeleteWinesNone(rows, uid) == rows

\* db.delete(wine).where(eq(wine.userId, userId))
DeleteWines(rows, uid) == { r \in rows : r.userId # uid }

\* The rows a user stored before the calls: call 0, fetchedAt 0.
Snapshot(uid) == AllBatches(uid, 0, 0, BATCH_SIZE + 1)

NewSave(uid, len) ==
  [ pc |-> "start", userId |-> uid, len |-> len, fetchedAt |-> 0, i |-> 0,
    error |-> "" ]

NotRead == [ user |-> Undefined, found |-> FALSE, data |-> {}, fetchedAt |-> 0 ]

\* The model of saveCellarData is not running.
SaveIdle ==
  /\ before = {}
  /\ table = {}
  /\ saves = [ c \in SaveCalls |-> NewSave(Undefined, 0) ]
  /\ clock = 0
  /\ readBack = NotRead

\* ------------------------------------------------------ ToolResultSummary
\* Renders with new props, over all instances.
MaxRenders == 1

\* The component instances that are mounted in one run.
Instances == { 1, 2 }

\* Tool results: the character codes of JSON.stringify(result), and the
\* message and error properties of the result. "Aa" and "BB" are strings.
ResultAa == [ json |-> << 34, 65, 97, 34 >>, message |-> Undefined, error |-> Undefined ]
ResultBB == [ json |-> << 34, 66, 66, 34 >>, message |-> Undefined, error |-> Undefined ]

\* The props of the component.
PropsSet ==
  { [ toolName |-> "getTastingNotes", result |-> ResultAa ],
    [ toolName |-> "getTastingNotes", result |-> ResultBB ],
    [ toolName |-> "analyzeValue", result |-> ResultAa ] }

\* hash & hash: the 32-bit integer of n; the strings of this model keep the
\* hash below 2^31, where it is n itself.
ToInt32(n) == n

\* for (...) { hash = ((hash << 5) - hash) + char; hash = hash & hash }
RECURSIVE HashFrom(_, _)
HashFrom(hash, codes) ==
  IF codes = <<>> THEN hash
  ELSE HashFrom(ToInt32((ToInt32(hash * 32) - hash) + Head(codes)), Tail(codes))

Abs(n) == IF n < 0 THEN 0 - n ELSE n

\* n.toString(36), as the sequence of its digits.
RECURSIVE Base36(_)
Base36(n) == IF n < 36 THEN << n >> ELSE Append(Base36(n \div 36), n % 36)

\* `${toolName}:${Math.abs(hash).toString(36)}`
CacheKey(props) ==
  [ tool |-> props.toolName, hash |-> Base36(Abs(HashFrom(0, props.result.json))) ]

CacheKeys == { CacheKey(p) : p \in PropsSet }

NoKey == [ tool |-> "", hash |-> <<>> ]

\* What summaryCache.get gives for a key the Map does not hold.
Absent == Undefined

\* data.summary of an ok response: summarizeToolResult returns text.trim().
SummaryTexts == { "", "Two bottles of Pinot, both ready to drink." }

\* The fallback of the catch block.
FallbackSummary(result) ==
  IF Truthy(result.message) THEN result.message
  ELSE IF Truthy(result.error) THEN "Error: " \o result.error
  ELSE "Tool completed successfully."

NoProps == [ toolName |-> "", result |-> ResultAa ]

\* An instance before it is mounted: useState(''), useState(true).
NewInstance ==
  [ status |-> "new", props |-> NoProps, cacheKey |-> NoKey,
    summary |-> "", isLoading |-> TRUE, shownFor |-> NoKey ]

UiStart ==
  /\ summaryCache = [ k \in CacheKeys |-> Absent ]
  /\ inst = [ i \in Instances |-> NewInstance ]
  /\ inflight = {}
  /\ issued = 0
  /\ renders = 0

\* The model of ToolResultSummary is not running.
UiIdle == UiStart

\* ---------------------------------------------------------------- initial
\* The bindings and the records of one invocation before execute is entered.
AnalyticsStart ==
  /\ pc = "start"
  /\ config = NoConfig
  /\ finalQuery = <<>>
  /\ attempts = 0
  /\ data = <<>>
  /\ correctedQuery = <<>>
  /\ fixPrompt = NoCall
  /\ caught = ""
  /\ ret = NotEnded
  /\ execCount = 0
  /\ execOutcomes = <<>>
  /\ lastExec = [ query |-> <<>>, outcome |-> "none", rows |-> <<>> ]
  /\ plannerCalls = 0
  /\ repairCalls = 0
  /\ insightCalls = 0
  /\ insightFailed = FALSE
  /\ failedCall = "none"

\* The single-invocation model is not running.
AnalyticsIdle == userId = Undefined /\ AnalyticsStart

Init ==
  /\ userId \in UserIds
  /\ AnalyticsStart
  /\ PairIdle
  /\ TnIdle
  /\ RouteIdle
  /\ SaveIdle
  /\ UiIdle

\* ----------------------------------------------------------------- actions
\* The outer catch receives err and the invocation ends.
Fail(err) ==
  /\ caught' = err
  /\ ret' = OuterCatch(err)
  /\ pc' = "done"

\* The head of the retry loop with finalQuery q after a failures: either
\* db.execute(q) is called, or the loop is left with data still empty and
\* the insight call is made.
LoopHead(q, a) ==
  IF LoopCond(a)
  THEN /\ pc' = "executing"
       /\ execCount' = execCount + 1
       /\ lastExec' = [ query |-> q, outcome |-> "pending", rows |-> <<>> ]
       /\ UNCHANGED insightCalls
  ELSE /\ pc' = "insight"
       /\ insightCalls' = insightCalls + 1
       /\ UNCHANGED << execCount, lastExec >>

\* Variant: the planner is called without looking at the session.
StartUnchecked ==
  /\ pc = "start"
  /\ UNCHANGED notAnalyticsVars
  /\ pc' = "planning"
  /\ plannerCalls' = plannerCalls + 1
  /\ UNCHANGED << userId, config, finalQuery, attempts, data, correctedQuery,
                  fixPrompt, caught, ret, execCount, execOutcomes, lastExec,
                  repairCalls, insightCalls, insightFailed,
                  failedCall >>

\* execute is entered: the session check, then the planner call.
Start ==
  /\ pc = "start"
  /\ UNCHANGED notAnalyticsVars
  /\ IF ~Truthy(userId)
     THEN /\ ret' = Returned([ error |-> NotAuthenticatedMsg ])
          /\ pc' = "done"
          /\ UNCHANGED plannerCalls
     ELSE /\ pc' = "planning"
          /\ plannerCalls' = plannerCalls + 1
          /\ UNCHANGED ret
  /\ UNCHANGED << userId, config, finalQuery, attempts, data, correctedQuery,
                  fixPrompt, caught, execCount, execOutcomes, lastExec,
                  repairCalls, insightCalls, insightFailed,
                  failedCall >>

\* generateObject resolves with a plan; the loop is entered.
PlanOk(cfg) ==
  /\ pc = "planning"
  /\ UNCHANGED notAnalyticsVars
  /\ config' = cfg
  /\ finalQuery' = InitialQuery(cfg)
  /\ attempts' = 0
  /\ data' = <<>>
  /\ LoopHead(InitialQuery(cfg), 0)
  /\ UNCHANGED << userId, correctedQuery, fixPrompt, caught, ret, execOutcomes,
                  plannerCalls, repairCalls, insightFailed,
                  failedCall >>

\* generateObject rejects.
PlanFail ==
  /\ pc = "planning"
  /\ UNCHANGED notAnalyticsVars
  /\ Fail(LLMError)
  /\ failedCall' = "planner"
  /\ UNCHANGED << userId, config, finalQuery, attempts, data, correctedQuery,
                  fixPrompt, execCount, execOutcomes, lastExec, plannerCalls,
                  repairCalls, insightCalls, insightFailed >>

\* db.execute resolves with rows: break, shape, call the insight LLM.
ExecOk(rows) ==
  /\ pc = "executing"
  /\ UNCHANGED notAnalyticsVars
  /\ data' = rows
  /\ execOutcomes' = Append(execOutcomes, "ok")
  /\ lastExec' = [ lastExec EXCEPT !.outcome = "ok", !.rows = rows ]
  /\ pc' = "insight"
  /\ insightCalls' = insightCalls + 1
  /\ UNCHANGED << userId, config, finalQuery, attempts, correctedQuery,
                  fixPrompt, caught, ret, execCount, plannerCalls,
                  repairCalls, insightFailed,
                  failedCall >>

\* db.execute rejects with msg: count the failure, give up or ask for a fix.
ExecErr(msg) ==
  /\ pc = "executing"
  /\ UNCHANGED notAnalyticsVars
  /\ attempts' = NextAttempts(attempts)
  /\ execOutcomes' = Append(execOutcomes, "err")
  /\ lastExec' = [ lastExec EXCEPT !.outcome = msg ]
  /\ IF GiveUp(attempts')
     THEN /\ Fail(GiveUpError(msg))
          /\ UNCHANGED << fixPrompt, repairCalls >>
     ELSE /\ fixPrompt' = FixPrompt(msg, finalQuery, config)
          /\ repairCalls' = repairCalls + 1
          /\ pc' = "repairing"
          /\ UNCHANGED << caught, ret >>
  /\ UNCHANGED << userId, config, finalQuery, data, correctedQuery, execCount,
                  plannerCalls, insightCalls, insightFailed,
                  failedCall >>

\* Variant: the repair call also re-plans the chart, dropping the colour field.
RepairOkReplan(text) ==
  /\ pc = "repairing"
  /\ UNCHANGED notAnalyticsVars
  /\ correctedQuery' = text
  /\ finalQuery' = RepairedQuery(text)
  /\ config' = [ config EXCEPT !.chartConfig.colorField = Undefined ]
  /\ fixPrompt' = NoCall
  /\ LoopHead(RepairedQuery(text), attempts)
  /\ UNCHANGED << userId, attempts, data, caught, ret, execOutcomes,
                  plannerCalls, repairCalls, insightFailed,
                  failedCall >>

\* The repair generateText resolves with text; back to the loop head.
RepairOk(text) ==
  /\ pc = "repairing"
  /\ UNCHANGED notAnalyticsVars
  /\ correctedQuery' = text
  /\ finalQuery' = RepairedQuery(text)
  /\ fixPrompt' = NoCall
  /\ LoopHead(RepairedQuery(text), attempts)
  /\ UNCHANGED << userId, config, attempts, data, caught, ret, execOutcomes,
                  plannerCalls, repairCalls, insightFailed,
                  failedCall >>

\* Variant: a rejected repair call is swallowed and the same query is tried
\* again.
RepairFailRetry ==
  /\ pc = "repairing"
  /\ UNCHANGED notAnalyticsVars
  /\ fixPrompt' = NoCall
  /\ failedCall' = "repair"
  /\ LoopHead(finalQuery, attempts)
  /\ UNCHANGED << userId, config, finalQuery, attempts, data, correctedQuery,
                  caught, ret, execOutcomes, plannerCalls, repairCalls,
                  insightFailed >>

\* The repair generateText rejects: the error leaves the inner catch.
RepairFail ==
  /\ pc = "repairing"
  /\ UNCHANGED notAnalyticsVars
  /\ fixPrompt' = NoCall
  /\ Fail(LLMError)
  /\ failedCall' = "repair"
  /\ UNCHANGED << userId, config, finalQuery, attempts, data, correctedQuery,
                  execCount, execOutcomes, lastExec, plannerCalls, repairCalls,
                  insightCalls, insightFailed >>

\* The insight generateText resolves: the success object is returned.
InsightOk(enhancedInsights) ==
  /\ pc = "insight"
  /\ UNCHANGED notAnalyticsVars
  /\ ret' = Returned(SuccessResult(finalQuery, data, config, enhancedInsights))
  /\ pc' = "done"
  /\ UNCHANGED << userId, config, finalQuery, attempts, data, correctedQuery,
                  fixPrompt, caught, execCount, execOutcomes, lastExec,
                  plannerCalls, repairCalls, insightCalls, insightFailed,
                  failedCall >>

\* The insight generateText rejects.
InsightFail ==
  /\ pc = "insight"
  /\ UNCHANGED notAnalyticsVars
  /\ insightFailed' = TRUE
  /\ Fail(LLMError)
  /\ failedCall' = "insight"
  /\ UNCHANGED << userId, config, finalQuery, attempts, data, correctedQuery,
                  fixPrompt, execCount, execOutcomes, lastExec, plannerCalls,
                  repairCalls, insightCalls >>

Next ==
  \/ Start
  \/ \E cfg \in Configs : PlanOk(cfg)
  \/ PlanFail
  \/ \E rows \in Results : ExecOk(rows)
  \/ \E msg \in ErrMsgs : ExecErr(msg)
  \/ \E text \in Texts : RepairOk(text)
  \/ RepairFail
  \/ \E text \in InsightTexts : InsightOk(text)
  \/ InsightFail

Spec == Init /\ [][Next]_vars

\* Every await of the invocation is eventually answered.
FairSpec == Spec /\ WF_vars(Next)

TypeOK ==
  /\ pc \in { "start", "planning", "executing", "repairing", "insight", "done" }
  /\ userId \in UserIds
  /\ attempts \in 0..maxAttempts
  /\ execCount \in 0..maxAttempts
  /\ Len(execOutcomes) <= execCount
  /\ failedCall \in { "none", "planner", "repair", "insight" }

\* --------------------------------------------- two invocations: actions
\* Invocation i reads the bindings of the other invocation.
LOther(i) == locals[Slot(3 - i)]

\* The bindings invocation i reads.
L(i) == locals[Slot(i)]

\* A deterministic collaborator gives the answer it gave before.
Allowed(known, resp) == ~deterministic \/ known \in { Unset, resp }

PlanAnswer(i, resp) ==
  /\ Allowed(memo.plan[call[i].userId], resp)
  /\ memo' = IF deterministic
             THEN [ memo EXCEPT !.plan[call[i].userId] = resp ] ELSE memo

RepairKey(i) == << call[i].userId, call[i].prompt.error, call[i].prompt.query >>

RepairAnswer(i, resp) ==
  /\ Allowed(memo.repair[RepairKey(i)], resp)
  /\ memo' = IF deterministic
             THEN [ memo EXCEPT !.repair[RepairKey(i)] = resp ] ELSE memo

StoreAnswer(i, resp) ==
  /\ Allowed(memo.store[call[i].sent], resp)
  /\ memo' = IF deterministic
             THEN [ memo EXCEPT !.store[call[i].sent] = resp ] ELSE memo

\* Invocation i, with bindings l and record c, is at the head of the loop.
PairLoopHead(l, c) ==
  IF LoopCond(l.attempts)
  THEN [ c EXCEPT !.pc = "executing", !.sent = l.finalQuery, !.execs = @ + 1 ]
  ELSE [ c EXCEPT !.pc = "insight" ]

\* Invocation i takes a step: its bindings become l, its record c.
PairStep(i, l, c) ==
  /\ locals' = [ locals EXCEPT ![Slot(i)] = l ]
  /\ call' = [ call EXCEPT ![i] = c ]
  /\ UNCHANGED << deterministic, notPairVars >>

\* The outer catch of invocation i receives err.
PairFail(i, err) ==
  PairStep(i, L(i), [ call[i] EXCEPT !.pc = "done", !.prompt = NoCall,
                                     !.ret = OuterCatch(err) ])

\* execute is entered by an authenticated session: the planner call is made.
PairStart(i) ==
  /\ call[i].pc = "start"
  /\ PairStep(i, L(i), [ call[i] EXCEPT !.pc = "planning" ])
  /\ UNCHANGED memo

PairPlanOk(i, cfg) ==
  /\ call[i].pc = "planning"
  /\ PlanAnswer(i, OkResp(cfg))
  /\ LET l == [ config |-> cfg, finalQuery |-> InitialQuery(cfg),
                attempts |-> 0, data |-> <<>> ]
         c == [ call[i] EXCEPT !.planned = TRUE, !.planResp = cfg ]
     IN PairStep(i, l, PairLoopHead(l, c))

PairPlanFail(i) ==
  /\ call[i].pc = "planning"
  /\ PlanAnswer(i, FailResp)
  /\ PairFail(i, LLMError)

PairExecOk(i, rows) ==
  /\ call[i].pc = "executing"
  /\ StoreAnswer(i, OkResp(rows))
  /\ PairStep(i, [ L(i) EXCEPT !.data = rows ],
              [ call[i] EXCEPT !.pc = "insight", !.gotRows = TRUE, !.rows = rows ])

PairExecErr(i, msg) ==
  /\ call[i].pc = "executing"
  /\ StoreAnswer(i, ErrResp(msg))
  /\ LET l == [ L(i) EXCEPT !.attempts = NextAttempts(@) ]
         c == [ call[i] EXCEPT !.failures = @ + 1 ]
     IN IF GiveUp(l.attempts)
        THEN PairStep(i, l, [ c EXCEPT !.pc = "done",
                                       !.ret = OuterCatch(GiveUpError(msg)) ])
        ELSE PairStep(i, l, [ c EXCEPT !.pc = "repairing",
                                       !.prompt = FixPrompt(msg, l.finalQuery, l.config) ])

PairRepairOk(i, text) ==
  /\ call[i].pc = "repairing"
  /\ RepairAnswer(i, OkResp(text))
  /\ LET l == [ L(i) EXCEPT !.finalQuery = RepairedQuery(text) ]
         c == [ call[i] EXCEPT !.prompt = NoCall, !.repaired = TRUE,
                               !.repairResp = text ]
     IN PairStep(i, l, PairLoopHead(l, c))

PairRepairFail(i) ==
  /\ call[i].pc = "repairing"
  /\ RepairAnswer(i, FailResp)
  /\ PairFail(i, LLMError)

PairInsightOk(i, text) ==
  /\ call[i].pc = "insight"
  /\ PairStep(i, L(i),
              [ call[i] EXCEPT
                  !.pc = "done", !.gotInsight = TRUE, !.insight = text,
                  !.ret = Returned(SuccessResult(L(i).finalQuery, L(i).data,
                                                 L(i).config, text)) ])
  /\ UNCHANGED memo

PairInsightFail(i) ==
  /\ call[i].pc = "insight"
  /\ PairFail(i, LLMError)
  /\ UNCHANGED memo

PairInit ==
  /\ AnalyticsIdle
  /\ TnIdle
  /\ RouteIdle
  /\ SaveIdle
  /\ UiIdle
  /\ locals = [ i \in Invocations |-> NoLocals ]
  /\ call \in { [ i \in Invocations |-> NewCall(u[i]) ] :
                  u \in [ Invocations -> PairUsers ] }
  /\ call[1].userId = SessionUser
  /\ deterministic \in BOOLEAN
  /\ memo = NoMemo

PairNext ==
  \E i \in Invocations :
    \/ PairStart(i)
    \/ \E cfg \in PairConfigs : PairPlanOk(i, cfg)
    \/ PairPlanFail(i)
    \/ \E rows \in PairResults : PairExecOk(i, rows)
    \/ \E msg \in PairErrMsgs : PairExecErr(i, msg)
    \/ \E text \in PairTexts : PairRepairOk(i, text)
    \/ PairRepairFail(i)
    \/ \E text \in PairInsightTexts : PairInsightOk(i, text)
    \/ PairInsightFail(i)

PairSpec == PairInit /\ [][PairNext]_vars

\* ------------------------------------------------------ derived predicates
Done == pc = "done"

IsSuccess == ret.kind = "return" /\ DOMAIN ret.value = SuccessFields

IsError == ret.kind = "return" /\ DOMAIN ret.value = { "error" }

\* Number of completed store executions that failed / succeeded.
Failures == Cardinality({ i \in DOMAIN execOutcomes : execOutcomes[i] = "err" })
Successes == Cardinality({ i \in DOMAIN execOutcomes : execOutcomes[i] = "ok" })

\* Every store execution of the invocation failed, and no LLM call did.
AllExecutionsFailed ==
  /\ Done
  /\ execOutcomes # <<>>
  /\ Successes = 0
  /\ caught # LLMError

\* The repair loop gave up: maxAttempts executions, the last one failed.
Exhausted ==
  /\ Done
  /\ execCount = maxAttempts
  /\ lastExec.outcome \in ErrMsgs

\* A statement that only reads.
IsRead(q) == Trim(q) # <<>> /\ Head(Trim(q)) = "SELECT"

\* ------------------------------------------------------------------ claims
\* The ceiling on store executions, and the outcome of an always-failing run.
C1_ExhaustedAfterMaxAttempts ==
  /\ execCount <= maxAttempts
  /\ AllExecutionsFailed =>
       /\ execCount = maxAttempts
       /\ Len(execOutcomes) = maxAttempts
       /\ caught \in ErrMsgs
       /\ IsError

\* C1: repair-loop termination.  If every store execution fails (and every
\* repair call returns a query), the invocation ends after exactly
\* maxAttempts store executions with the error result; an 11th execution is
\* never made, and every invocation eventually ends.
C1_RepairLoopTermination == []C1_ExhaustedAfterMaxAttempts /\ <>Done

C1_Witness == AllExecutionsFailed /\ lastExec.outcome \in QueryErrors /\ IsError

\* C2: a success result carries the text of the last store execution, which
\* is the only execution that succeeded; without a successful execution
\* there is no success result but an error.
C2_FinalQueryIsLastOk ==
  /\ IsSuccess =>
       /\ ret.value.query = lastExec.query
       /\ lastExec.outcome = "ok"
       /\ Successes = 1
       /\ execOutcomes[Len(execOutcomes)] = "ok"
       /\ Len(execOutcomes) = execCount
  /\ (Done /\ Successes = 0) => IsError

C2_Witness == IsSuccess /\ repairCalls > 0 /\ correctedQuery # Trim(correctedQuery)

\* C3: maxAttempts is a hard ceiling on the store executions, and a
\* successful invocation made between 1 and maxAttempts of them.
C3_AttemptCeiling ==
  /\ execCount <= maxAttempts
  /\ Len(execOutcomes) <= maxAttempts
  /\ IsSuccess => (execCount >= 1 /\ execCount <= maxAttempts)

C3_Witness == IsSuccess /\ execCount = maxAttempts

\* The first store execution of the invocation succeeded.
FirstQuerySucceeded == execOutcomes # <<>> /\ execOutcomes[1] = "ok"

\* C4: when the first generated query executes without error there is one
\* store execution, no repair call, and the planner's text is executed and
\* returned unchanged.
C4_FirstAttemptSuccess ==
  FirstQuerySucceeded =>
    /\ execCount = 1
    /\ repairCalls = 0
    /\ lastExec.query = config.sqlQuery
    /\ IsSuccess => ret.value.query = config.sqlQuery

C4_Witness == FirstQuerySucceeded /\ IsSuccess /\ config.sqlQuery # Trim(config.sqlQuery)

\* Each failure below the ceiling is followed by one repair call, made with
\* the failing text and its error message.
RepairCalledWithFailure ==
  /\ pc = "repairing" =>
       /\ fixPrompt = [ pending |-> TRUE, error |-> lastExec.outcome,
                        query |-> lastExec.query ]
       /\ lastExec.outcome \in ErrMsgs
       /\ Failures < maxAttempts
  /\ pc # "repairing" => fixPrompt = NoCall
  /\ repairCalls = (IF Failures = maxAttempts THEN maxAttempts - 1 ELSE Failures)
  /\ IsSuccess => (execCount = Failures + 1 /\ repairCalls = Failures)

\* C5 (as stated): after a failed attempt below the ceiling, repair is
\* called once with the failing text and its error message, and the next
\* attempt executes the text that repair call returned.
C5_NextAttemptRunsRepairOutput ==
  /\ RepairCalledWithFailure
  /\ execCount >= 2 => lastExec.query = correctedQuery

\* C5 (amended): the next attempt executes the text the repair call
\* returned with its leading and trailing whitespace removed.
C5_NextAttemptRunsTrimmedRepairOutput ==
  /\ RepairCalledWithFailure
  /\ execCount >= 2 => lastExec.query = Trim(correctedQuery)

C5_Witness ==
  /\ IsSuccess
  /\ execCount = 2
  /\ repairCalls = 1
  /\ correctedQuery # Trim(correctedQuery)
  /\ lastExec.query = Trim(correctedQuery)

\* C6: an invocation ends by returning either the full success object or an
\* object with only an error string; it never throws.
C6_TwoResultShapes ==
  /\ Done =>
       /\ ret.kind = "return"
       /\ \/ DOMAIN ret.value = SuccessFields
          \/ /\ DOMAIN ret.value = { "error" }
             /\ ret.value.error \in { NotAuthenticatedMsg, FailedMsg }
  /\ ~Done => ret = NotEnded

C6_Witness == Done /\ IsError /\ caught = LLMError /\ execCount = 0 /\ plannerCalls = 1

\* C7: when the insight call fails after a successful execution, the
\* success result is still returned, with the planner's narrative hint as
\* insights.
C7_InsightFallback ==
  (Done /\ insightFailed) => (IsSuccess /\ ret.value.insights = config.insights)

\* C8 (as stated): on exhaustion the caller of the tool receives the message
\* of the last failed store execution.
C8_CallerGetsLastMessage ==
  Exhausted =>
    \/ (ret.kind = "throw" /\ ret.value = lastExec.outcome)
    \/ (IsError /\ ret.value.error = lastExec.outcome)

\* C8 (amended): on exhaustion the error thrown out of the retry loop, which
\* the outer catch receives and logs, is the last failed store execution's
\* error; the caller of the tool receives the fixed message.
C8_LastMessageReachesOuterCatch ==
  Exhausted => (caught = lastExec.outcome /\ ret = Returned([ error |-> FailedMsg ]))

C8_Witness == Exhausted /\ caught \in StoreUnavailable

\* C9: every failure of an authenticated invocation returns the one fixed
\* message; the result holds no query text and no message of a store or LLM
\* error.
C9_FixedFailureMessage ==
  (Done /\ Truthy(userId) /\ ~IsSuccess) =>
    /\ ret = Returned([ error |-> FailedMsg ])
    /\ ret.value.error \notin (ErrMsgs \cup { LLMError })

C9_Witness == Done /\ IsError /\ caught = LLMError /\ repairCalls > 0 /\ ~insightFailed

\* C10: no text that is not a read statement is ever passed to the store.
C10_OnlyReadsExecuted == execCount > 0 => IsRead(lastExec.query)

\* The tokens of a text.
Tokens(q) == { q[i] : i \in DOMAIN q }

\* C11: every text executed against the store carries the owner-scoping
\* predicate of the invoking session's user id.
C11_EveryExecutedQueryOwnerScoped ==
  execCount > 0 => OwnerPredicate(userId) \in Tokens(lastExec.query)

\* After an LLM call of the invocation rejected, the invocation has ended
\* with an error and made no store execution since.
LLMFailureEndsInvocation ==
  /\ failedCall = "planner" =>
       /\ Done /\ IsError
       /\ plannerCalls = 1 /\ execCount = 0 /\ repairCalls = 0
  /\ failedCall = "repair" =>
       /\ Done /\ IsError
       /\ execCount = Len(execOutcomes) /\ Successes = 0
       /\ repairCalls = Failures /\ Failures < maxAttempts

\* C12: an LLM failure is never retried.  When the planner call rejects no
\* store execution is made; when a repair call rejects no further store
\* execution or repair call is made, however many attempts remain; in both
\* cases the tool returns an error.
C12_LLMFailureNotRetried ==
  /\ []LLMFailureEndsInvocation
  /\ [][failedCall # "none" =>
          UNCHANGED << execCount, plannerCalls, repairCalls, insightCalls >>]_vars

C12_Witness == Done /\ failedCall = "repair" /\ Failures = 1 /\ IsError

\* C13: only a query-level error leads to a repair call and another attempt;
\* a store-availability failure does not.
C13_OnlyQueryErrorsRepaired ==
  /\ pc = "repairing" => lastExec.outcome \in QueryErrors
  /\ lastExec.outcome \in StoreUnavailable => (Done /\ IsError)

\* The field names the plan configures.
ConfiguredFields(cc) ==
  { cc.xField, cc.yField } \cup (IF Truthy(cc.colorField) THEN { cc.colorField } ELSE {})

\* In every item the fields the row has carry the row's values.
PresentFieldsProjected ==
  IsSuccess =>
    /\ Len(ret.value.chartData) = Len(lastExec.rows)
    /\ \A i \in 1..Len(lastExec.rows) :
         \A f \in { config.chartConfig.xField, config.chartConfig.yField } :
           f \in DOMAIN lastExec.rows[i] =>
             /\ f \in DOMAIN ret.value.chartData[i]
             /\ ret.value.chartData[i][f] = lastExec.rows[i][f]

\* An execution that succeeded is followed by the insight call: shaping
\* does not end the invocation.
ShapingDoesNotFail ==
  /\ Successes = 1 => pc \in { "insight", "done" }
  /\ (Done /\ Successes = 1 /\ failedCall = "none") => IsSuccess

C15_OrderPreservingProjection ==
  IsSuccess =>
    LET cc == config.chartConfig
        rows == lastExec.rows
        items == ret.value.chartData
    IN /\ Len(items) = Len(rows)
       /\ \A i \in 1..Len(rows) :
            /\ DOMAIN items[i] \subseteq ConfiguredFields(cc)
            /\ items[i][cc.xField] = Get(rows[i], cc.xField)
            /\ items[i][cc.yField] = Get(rows[i], cc.yField)
       /\ ret.value.data = rows
       /\ ret.value.config = cc

C15_Witness ==
  /\ IsSuccess
  /\ Len(lastExec.rows) = 2
  /\ lastExec.rows[1] # lastExec.rows[2]
  /\ ret.value.chartData[1] # ret.value.chartData[2]

\* The store returned rows to an invocation no LLM call of which rejected,
\* and the x field or the y field is absent from every row.
AxisFieldAbsentEverywhere ==
  /\ Done
  /\ Successes = 1
  /\ failedCall = "none"
  /\ \E f \in { config.chartConfig.xField, config.chartConfig.yField } :
       \A i \in 1..Len(lastExec.rows) : f \notin DOMAIN lastExec.rows[i]

\* C16 (as stated): when the x or y field is absent from every returned row
\* the invocation succeeds and the shaped dataset is empty.
C16_AbsentAxisGivesEmptyDataset ==
  AxisFieldAbsentEverywhere => (IsSuccess /\ ret.value.chartData = <<>>)

\* C16 (amended): when the x or y field is absent from every returned row
\* the invocation succeeds and chartData has one item per returned row, each
\* carrying that field's key with the value undefined; it is empty only
\* when no row was returned.
C16_AbsentAxisGivesUndefinedItems ==
  AxisFieldAbsentEverywhere =>
    /\ IsSuccess
    /\ Len(ret.value.chartData) = Len(lastExec.rows)
    /\ \A f \in { config.chartConfig.xField, config.chartConfig.yField } :
         \A i \in 1..Len(lastExec.rows) :
           f \notin DOMAIN lastExec.rows[i] =>
             (f \in DOMAIN ret.value.chartData[i] /\ ret.value.chartData[i][f] = Undefined)

C16_Witness ==
  /\ AxisFieldAbsentEverywhere
  /\ Len(lastExec.rows) = 2
  /\ Len(ret.value.chartData) = 2

\* C21: repair changes only the query text: the plan is set by the planner
\* call alone, and the config returned and used by the shaper is the chart
\* configuration of that plan, whatever the number of repair steps.
C21_RepairKeepsChartFields ==
  /\ [][pc # "planning" => config' = config]_vars
  /\ [](IsSuccess =>
          /\ ret.value.config = config.chartConfig
          /\ ret.value.chartData = ChartData(data, config.chartConfig))

C21_Witness ==
  /\ IsSuccess
  /\ repairCalls = 2
  /\ config.chartConfig.colorField = "type"
  /\ ret.value.query # config.sqlQuery
  /\ \E i \in DOMAIN ret.value.chartData : "type" \in DOMAIN ret.value.chartData[i]

\* C22: when a colorField is configured, every shaped record whose source row
\* contains that field carries the row's value for it unchanged, falsy values
\* such as the empty string included.
C22_ColorValueCarried ==
  (IsSuccess /\ Truthy(config.chartConfig.colorField)) =>
    \A i \in DOMAIN data :
      config.chartConfig.colorField \in DOMAIN data[i] =>
        /\ config.chartConfig.colorField \in DOMAIN ret.value.chartData[i]
        /\ ret.value.chartData[i][config.chartConfig.colorField]
             = data[i][config.chartConfig.colorField]

\* C25: without a session user id the tool returns the 'User not
\* authenticated' error at once: no LLM call and no store execution is made.
C25_NoSessionNoCalls ==
  ~Truthy(userId) =>
    /\ pc \in { "start", "done" }
    /\ plannerCalls = 0 /\ repairCalls = 0 /\ insightCalls = 0
    /\ execCount = 0
    /\ pc = "done" =>
         /\ ret.kind = "return"
         /\ DOMAIN ret.value = { "error" }
         /\ ret.value.error = NotAuthenticatedMsg

C25_Witness ==
  /\ userId = Undefined
  /\ pc = "done"
  /\ ret.kind = "return"
  /\ ret.value.error = NotAuthenticatedMsg

\* The planner call is made once, before the first store execution.
PlannerOnceBeforeExecutions ==
  /\ pc # "start" => plannerCalls = 1
  /\ execCount > 0 => (plannerCalls = 1 /\ pc # "planning")

\* No repair call follows the maxAttempts-th failure; a run whose executions
\* all fail makes maxAttempts executions and maxAttempts - 1 repair calls.
NoRepairAfterLastFailure ==
  /\ repairCalls <= maxAttempts - 1
  /\ AllExecutionsFailed => (execCount = maxAttempts /\ repairCalls = maxAttempts - 1)

\* The insight call is made at most once, and only after a successful execution.
InsightOnceAfterSuccess ==
  /\ insightCalls <= 1
  /\ insightCalls = 1 => (Successes = 1 /\ lastExec.outcome = "ok")

\* Each call is issued from the position the loop gives it.
CallsIssuedInOrder ==
  /\ plannerCalls' # plannerCalls => pc = "start"
  /\ execCount' # execCount => pc \in { "planning", "repairing" }
  /\ repairCalls' # repairCalls => (pc = "executing" /\ execCount = repairCalls + 1)
  /\ insightCalls' # insightCalls => (pc = "executing" /\ lastExec'.outcome = "ok")

\* C26 as stated: the planner call is made exactly once and before the first
\* store execution; every repair call lies strictly between two store
\* executions; no repair call follows the maxAttempts-th failure; the insight
\* call is made at most once and only after a successful execution.
C26_EveryRepairBetweenTwoExecutions ==
  (Truthy(userId) /\ Done) =>
    /\ PlannerOnceBeforeExecutions
    /\ repairCalls > 0 => repairCalls < execCount
    /\ NoRepairAfterLastFailure
    /\ InsightOnceAfterSuccess

\* C26: in an invocation with a session user the planner call is made exactly
\* once and before the first store execution; every repair call follows a
\* failed execution and, when it resolves, is followed by the next execution,
\* while a repair call that rejects is the last call of the invocation; no
\* repair call follows the maxAttempts-th failure; the insight call is made at
\* most once and only after a successful execution.
C26_CallOrdering ==
  /\ [](Truthy(userId) =>
          /\ PlannerOnceBeforeExecutions
          /\ NoRepairAfterLastFailure
          /\ InsightOnceAfterSuccess
          /\ repairCalls <= Failures
          /\ pc = "repairing" => (repairCalls = execCount /\ Failures = execCount)
          /\ pc = "executing" => execCount = repairCalls + 1
          /\ (Done /\ failedCall = "repair") =>
               (repairCalls = execCount /\ insightCalls = 0)
          /\ (Done /\ failedCall # "repair" /\ execCount > 0) =>
               repairCalls = execCount - 1)
  /\ [][CallsIssuedInOrder]_vars

C26_Witness ==
  /\ Done /\ Truthy(userId)
  /\ failedCall = "repair"
  /\ execCount = 3 /\ repairCalls = 3
  /\ insightCalls = 0

\* ------------------------------------------------ two invocations: claims
PairDone(i) == call[i].pc = "done"

PairSuccess(i) == PairDone(i) /\ DOMAIN call[i].ret.value = SuccessFields

PairError(i) == PairDone(i) /\ call[i].ret = Returned([ error |-> FailedMsg ])

\* The query invocation i holds after the answers it has received.
OwnQuery(i) ==
  IF call[i].repaired THEN Trim(call[i].repairResp) ELSE call[i].planResp.sqlQuery

\* The rows invocation i holds after the answers it has received.
OwnRows(i) == IF call[i].gotRows THEN call[i].rows ELSE <<>>

\* The number of executions invocation i has started.
OwnExecs(i) ==
  call[i].failures + (IF call[i].gotRows THEN 1 ELSE 0)
                   + (IF call[i].pc = "executing" THEN 1 ELSE 0)

\* The result of invocation i when it ran to the success return.
OwnSuccess(i) ==
  Returned(SuccessResult(OwnQuery(i), OwnRows(i), call[i].planResp, call[i].insight))

\* The state of invocation i follows from the answers it received alone.
RunsAsAlone(i) ==
  /\ call[i].execs <= maxAttempts
  /\ call[i].execs = OwnExecs(i)
  /\ call[i].planned =>
       /\ locals[i].config = call[i].planResp
       /\ locals[i].attempts = call[i].failures
       /\ locals[i].finalQuery = OwnQuery(i)
       /\ locals[i].data = OwnRows(i)
  /\ call[i].pc = "executing" => call[i].sent = OwnQuery(i)
  /\ PairDone(i) =>
       IF call[i].gotInsight
       THEN call[i].ret = OwnSuccess(i)
       ELSE PairError(i)

\* A step of invocation i leaves the bindings of the other invocation alone.
OthersUntouched ==
  \A i \in Invocations :
    call'[i] # call[i] => locals'[3 - i] = locals[3 - i]

SameOwner == call[1].userId = call[2].userId

BothDone == PairDone(1) /\ PairDone(2)

\* C17: with a deterministic planner and repair function and a fixed store,
\* two invocations of the same owner with the same question end with the same
\* final query text, the same number of attempts and the same shaped dataset.
C17_Determinism ==
  (deterministic /\ SameOwner /\ BothDone) =>
    /\ call[1].planned = call[2].planned
    /\ call[1].planned =>
         /\ OwnQuery(1) = OwnQuery(2)
         /\ locals[1].finalQuery = locals[2].finalQuery
         /\ call[1].failures = call[2].failures
         /\ locals[1].attempts = locals[2].attempts
         /\ call[1].execs = call[2].execs
         /\ call[1].gotRows = call[2].gotRows
         /\ ChartData(locals[1].data, locals[1].config.chartConfig)
              = ChartData(locals[2].data, locals[2].config.chartConfig)
    /\ (PairSuccess(1) /\ PairSuccess(2)) =>
         /\ call[1].ret.value.query = call[2].ret.value.query
         /\ call[1].ret.value.chartData = call[2].ret.value.chartData

C17_Witness ==
  /\ deterministic /\ SameOwner
  /\ PairSuccess(1) /\ PairSuccess(2)
  /\ call[1].failures = 2 /\ call[2].failures = 2
  /\ Len(call[1].ret.value.chartData) = 2
  /\ call[2].ret.value.query = <<"SELECT", OwnerPredicate(SessionUser)>>

\* C18: in every interleaving of two invocations each one's attempt counter,
\* current query, rows and result are those its own answers give it, and no
\* step of one invocation changes the bindings of the other.
C18_IndependentInvocations ==
  /\ [](\A i \in Invocations : RunsAsAlone(i))
  /\ [][OthersUntouched]_vars

C18_Witness ==
  /\ ~SameOwner
  /\ call[1].pc = "repairing" /\ call[1].failures = 3
  /\ call[2].pc = "executing" /\ call[2].failures = 1
  /\ locals[1].finalQuery # locals[2].finalQuery
  /\ locals[1].config # locals[2].config

\* ------------------------------------------------ getTastingNotes: steps
\* The rows the select by iWine finds.
Matching == { r \in wineTable : r.iWine = input }

\* getTastingNotes ends on path o with result v.
TnReturn(o, v) ==
  /\ tnPc' = "done"
  /\ tnOutcome' = o
  /\ tnRet' = Returned(v)

\* The select finds no row.
TnSelectNone ==
  /\ tnPc = "select"
  /\ Matching = {}
  /\ TnReturn("not found", NotFoundResult(input))
  /\ UNCHANGED << input, wineTable, w, wineResponse, bottleImageUrl, notTnVars >>

\* The select finds a row; the wine page is requested.
TnSelectFound(rec) ==
  /\ tnPc = "select"
  /\ rec \in Matching
  /\ tnPc' = "winePage"
  /\ w' = rec
  /\ UNCHANGED << input, wineTable, wineResponse, bottleImageUrl, tnRet, tnOutcome, notTnVars >>

\* The select rejects: it is awaited outside the try.
TnSelectReject ==
  /\ tnPc = "select"
  /\ tnPc' = "done"
  /\ tnOutcome' = "database error"
  /\ tnRet' = Thrown("ECONNREFUSED")
  /\ UNCHANGED << input, wineTable, w, wineResponse, bottleImageUrl, notTnVars >>

\* The wine page arrives; the strategies give img; the notes page is requested.
TnWinePageOk(img) ==
  /\ tnPc = "winePage"
  /\ tnPc' = "notesPage"
  /\ wineResponse' = "ok"
  /\ bottleImageUrl' = img
  /\ UNCHANGED << input, wineTable, w, tnRet, tnOutcome, notTnVars >>

\* The wine response is not ok: no image.
TnWinePageNotOk ==
  /\ tnPc = "winePage"
  /\ tnPc' = "notesPage"
  /\ wineResponse' = "not ok"
  /\ UNCHANGED << input, wineTable, w, bottleImageUrl, tnRet, tnOutcome, notTnVars >>

\* The fetch of the wine page, or reading its body, rejects.
TnWinePageReject ==
  /\ tnPc = "winePage"
  /\ TnReturn("scrape exception", FallbackResult(input, w))
  /\ UNCHANGED << input, wineTable, w, wineResponse, bottleImageUrl, notTnVars >>

\* The fetch of the notes page rejects.
TnNotesFetchReject ==
  /\ tnPc = "notesPage"
  /\ TnReturn("network error", NetworkErrorResult(input, w))
  /\ UNCHANGED << input, wineTable, w, wineResponse, bottleImageUrl, notTnVars >>

\* The notes response is not ok.
TnNotesNotOk(status) ==
  /\ tnPc = "notesPage"
  /\ TnReturn("not ok", NotOkResult(input, w, status))
  /\ UNCHANGED << input, wineTable, w, wineResponse, bottleImageUrl, notTnVars >>

\* The notes page arrives and is parsed.
TnNotesOk(notes, score) ==
  /\ tnPc = "notesPage"
  /\ TnReturn("scraped", ScrapedResult(input, w, bottleImageUrl, notes, score))
  /\ UNCHANGED << input, wineTable, w, wineResponse, bottleImageUrl, notTnVars >>

\* Reading the body of the notes response rejects.
TnNotesBodyReject ==
  /\ tnPc = "notesPage"
  /\ TnReturn("scrape exception", FallbackResult(input, w))
  /\ UNCHANGED << input, wineTable, w, wineResponse, bottleImageUrl, notTnVars >>

TnInit ==
  /\ AnalyticsIdle
  /\ PairIdle
  /\ RouteIdle
  /\ SaveIdle
  /\ UiIdle
  /\ input \in IWines
  /\ wineTable \in SUBSET WineRows
  /\ TnStart

TnNext ==
  \/ TnSelectNone
  \/ \E rec \in WineRows : TnSelectFound(rec)
  \/ TnSelectReject
  \/ \E img \in ImageUrls : TnWinePageOk(img)
  \/ TnWinePageNotOk
  \/ TnWinePageReject
  \/ TnNotesFetchReject
  \/ \E status \in NotOkStatuses : TnNotesNotOk(status)
  \/ \E notes \in ParsedNotes, score \in ScoreMatches : TnNotesOk(notes, score)
  \/ TnNotesBodyReject

TnSpec == TnInit /\ [][TnNext]_vars

\* The outcomes of getTastingNotes that return an object.
TnOutcomes == { "not found", "scraped", "network error", "not ok", "scrape exception" }

\* C19: on every outcome of getTastingNotes (wine not in the database,
\* successful scrape, notes fetch network error, non-OK notes response,
\* scrape exception) the returned object is defined and its top-level iWine
\* equals the input iWine.
C19_TopLevelIWineIsInput ==
  (tnPc = "done" /\ tnOutcome \in TnOutcomes) =>
    /\ tnRet.kind = "return"
    /\ Get(tnRet.value, "iWine") = input

\* ------------------------------------------------- CellarTracker route: steps
\* The request ends with response r.
Respond(r) ==
  /\ rPc' = "idle"
  /\ response' = r

\* A request arrives: the variables of the previous request are gone.
Arrive(sid, u, p) ==
  /\ rPc = "idle"
  /\ requests < MaxRequests
  /\ requests' = requests + 1
  /\ session' = sid
  /\ username' = u
  /\ password' = p
  /\ fetched' = NoFetch
  /\ wines' = <<>>

\* The catch of the route: every rejection here is an Error.
RouteCatch == Respond(ErrorResponse("500", "Failed to process request"))

\* Time passes between requests.
RouteTick ==
  /\ rPc = "idle"
  /\ now + TickHours <= MaxClock
  /\ now' = now + TickHours
  /\ UNCHANGED << rPc, session, username, password, fetched, wines, response,
                  effects, wineRows, credentials, requests, notRouteVars >>

\* A request without a session user.
RouteUnauthorized(u, p) ==
  /\ Arrive(Undefined, u, p)
  /\ effects' = <<>>
  /\ Respond(ErrorResponse("401", "Unauthorized"))
  /\ UNCHANGED << wineRows, credentials, now, notRouteVars >>

\* request.json() rejects: it is awaited outside the try.
RouteBadBody ==
  /\ Arrive(SessionUser, Undefined, "")
  /\ effects' = <<>>
  /\ Respond([ status |-> "throw", body |-> [ error |-> "SyntaxError" ] ])
  /\ UNCHANGED << wineRows, credentials, now, notRouteVars >>

\* A request without a username or without a password.
RouteMissingCredentials(u, p) ==
  /\ ~Truthy(u) \/ ~Truthy(p)
  /\ Arrive(SessionUser, u, p)
  /\ effects' = <<>>
  /\ Respond(ErrorResponse("400", "Username and password are required"))
  /\ UNCHANGED << wineRows, credentials, now, notRouteVars >>

\* A request with a session and credentials: the fetch to CellarTracker.
RouteFetch(u, p) ==
  /\ Truthy(u) /\ Truthy(p)
  /\ Arrive(SessionUser, u, p)
  /\ effects' = << "fetch" >>
  /\ rPc' = "fetching"
  /\ UNCHANGED << response, wineRows, credentials, now, notRouteVars >>

\* The fetch, or reading its body, rejects.
RouteFetchReject ==
  /\ rPc = "fetching"
  /\ RouteCatch
  /\ UNCHANGED << session, username, password, fetched, wines, effects,
                  wineRows, credentials, now, requests, notRouteVars >>

\* CellarTracker answers r: the checks of the response, then the cache lookup.
RouteFetched(r) ==
  /\ rPc = "fetching"
  /\ r \in FetchResults(username, password)
  /\ fetched' = r
  /\ IF IsErrorHtml(r.text)
     THEN /\ Respond(ErrorResponse("401",
               "Invalid CellarTracker credentials. Please check your username and password."))
          /\ UNCHANGED effects
     ELSE IF ~r.ok
     THEN /\ Respond(ErrorResponse(r.status, "Failed to fetch data from CellarTracker"))
          /\ UNCHANGED effects
     ELSE IF ~IsValidCsv(r.text)
     THEN /\ Respond(ErrorResponse("401",
               "Invalid response from CellarTracker. Please check your credentials."))
          /\ UNCHANGED effects
     ELSE /\ rPc' = "lookup"
          /\ effects' = Append(effects, "getCellarData")
          /\ UNCHANGED response
  /\ UNCHANGED << session, username, password, wines, wineRows, credentials,
                  now, requests, notRouteVars >>

\* getCellarData rejects.
RouteLookupReject ==
  /\ rPc = "lookup"
  /\ RouteCatch
  /\ UNCHANGED << session, username, password, fetched, wines, effects,
                  wineRows, credentials, now, requests, notRouteVars >>

\* getCellarData gives rows: they are returned.
RouteCacheHit ==
  /\ rPc = "lookup"
  /\ LET existingData == GetCellarData(wineRows, session, now)
     IN /\ existingData.found /\ existingData.data # {}
        /\ Respond(DataResponse(existingData.data, existingData.fetchedAt, "true"))
  /\ UNCHANGED << session, username, password, fetched, wines, effects,
                  wineRows, credentials, now, requests, notRouteVars >>

\* getCellarData gives nothing: the CSV is parsed, the credentials are saved.
RouteCacheMiss ==
  /\ rPc = "lookup"
  /\ LET existingData == GetCellarData(wineRows, session, now)
     IN ~(existingData.found /\ existingData.data # {})
  /\ wines' = ParseCsv(fetched.text)
  /\ effects' = Append(effects, "saveCellarTrackerCredentials")
  /\ rPc' = "savingCredentials"
  /\ UNCHANGED << session, username, password, fetched, response,
                  wineRows, credentials, now, requests, notRouteVars >>

\* saveCellarTrackerCredentials rejects.
RouteCredentialsReject ==
  /\ rPc = "savingCredentials"
  /\ RouteCatch
  /\ UNCHANGED << session, username, password, fetched, wines, effects,
                  wineRows, credentials, now, requests, notRouteVars >>

\* The credentials are stored; saveCellarData is called.
RouteCredentialsSaved ==
  /\ rPc = "savingCredentials"
  /\ credentials' = [ username |-> username, password |-> password ]
  /\ effects' = Append(effects, "saveCellarData")
  /\ rPc' = "savingWines"
  /\ UNCHANGED << session, username, password, fetched, wines, response,
                  wineRows, now, requests, notRouteVars >>

\* saveCellarData ends: the fresh wines are returned, or its error is caught.
RouteWinesSaved(outcome) ==
  /\ rPc = "savingWines"
  /\ wineRows' = SaveCellarData(wineRows, session, wines, now, outcome)
  /\ IF outcome = "ok"
     THEN Respond(DataResponse({ wines[n] : n \in DOMAIN wines }, now, "false"))
     ELSE RouteCatch
  /\ UNCHANGED << session, username, password, fetched, wines, effects,
                  credentials, now, requests, notRouteVars >>

RouteInit ==
  /\ AnalyticsIdle
  /\ PairIdle
  /\ TnIdle
  /\ SaveIdle
  /\ UiIdle
  /\ RouteStart

RouteNext ==
  \/ RouteTick
  \/ \E u \in Usernames, p \in Passwords : RouteUnauthorized(u, p)
  \/ RouteBadBody
  \/ \E u \in Usernames, p \in Passwords : RouteMissingCredentials(u, p)
  \/ \E u \in Usernames, p \in Passwords : RouteFetch(u, p)
  \/ RouteFetchReject
  \/ \E r \in FetchResults(username, password) : RouteFetched(r)
  \/ RouteLookupReject
  \/ RouteCacheHit
  \/ RouteCacheMiss
  \/ RouteCredentialsReject
  \/ RouteCredentialsSaved
  \/ \E outcome \in SaveOutcomes : RouteWinesSaved(outcome)

RouteSpec == RouteInit /\ [][RouteNext]_vars

\* ------------------------------------------------ CellarTracker route: claims
RequestEnded == rPc = "idle" /\ requests > 0

CarriesWineData == "data" \in DOMAIN response.body

\* The fetch of the request was made with the submitted credentials and
\* returned what the route takes for a valid CSV: an ok response that is no
\* markup, has a comma and the Wine column, and is at least ten characters long.
VerifiedByFetch ==
  /\ effects # <<>> /\ effects[1] = "fetch"
  /\ fetched \in FetchResults(username, password)
  /\ fetched.ok
  /\ \A i \in DOMAIN fetched.text :
       fetched.text[i] \notin LtTokens \cup { "not logged into CellarTracker" }
  /\ \E i \in DOMAIN fetched.text : fetched.text[i] = ","
  /\ \E i \in DOMAIN fetched.text : fetched.text[i] = "Wine"
  /\ TextLen(Trim(fetched.text)) >= minCsvLength

\* The calls of the request that read the cache or write a table.
StoreCalls ==
  { i \in DOMAIN effects :
      effects[i] \in { "getCellarData", "saveCellarTrackerCredentials", "saveCellarData" } }

ErrorStatuses == { "400", "401", "500" }

\* C20: every response of the route that carries wine data, cached or fresh,
\* follows in the same request a fetch with the submitted username and password
\* that returned a valid CSV; a request without a session, without credentials
\* or with a failed verification ends with an error status, reads no cached
\* data and writes no credentials and no wines.
C20_CredentialsVerifiedFirst ==
  /\ [](StoreCalls # {} => VerifiedByFetch)
  /\ []((RequestEnded /\ CarriesWineData) => VerifiedByFetch)
  /\ []((RequestEnded /\ response.status # "throw" /\ ~VerifiedByFetch) =>
          /\ response.status \in ErrorStatuses
          /\ ~CarriesWineData
          /\ StoreCalls = {})
  /\ [][(wineRows' # wineRows \/ credentials' # credentials) => VerifiedByFetch]_vars

C20_Witness ==
  /\ RequestEnded /\ requests = 2
  /\ CarriesWineData
  /\ response.status = "200"
  /\ response.body.cached = "true"
  /\ response.body.data # {}
  /\ effects = << "fetch", "getCellarData" >>
  /\ wineRows # {}

\* C28: wine data the route returns from the cache was ingested from the
\* CellarTracker account whose username and password the same request verified.
C28_CachedRowsOfVerifiedAccount ==
  (RequestEnded /\ CarriesWineData /\ response.body.cached = "true") =>
    \A r \in response.body.data :
      r \in WinesToInsert(session, ParseCsv(CsvOf(username)), r.fetchedAt)

\* ------------------------------------------------- saveCellarData: steps
SaveFailedMsg == "Failed to save cellar data"

\* Call c takes a step to record sv.
SaveStep(c, sv) == saves' = [ saves EXCEPT ![c] = sv ]

\* The delete of call c runs; fetchedAt is read from the clock, which has
\* advanced by adv; without wines the call is over.
SaveDelete(c, adv) ==
  /\ saves[c].pc = "start"
  /\ table' = DeleteWines(table, saves[c].userId)
  /\ clock' = clock + adv
  /\ SaveStep(c, [ saves[c] EXCEPT
                     !.fetchedAt = clock + adv,
                     !.pc = IF saves[c].len > 0 THEN "inserting" ELSE "done" ])
  /\ UNCHANGED << before, readBack, notSaveVars >>

\* The delete of call c rejects.
SaveDeleteReject(c) ==
  /\ saves[c].pc = "start"
  /\ SaveStep(c, [ saves[c] EXCEPT !.pc = "delete failed", !.error = SaveFailedMsg ])
  /\ UNCHANGED << before, table, clock, readBack, notSaveVars >>

\* The insert of the next batch of call c runs.
SaveInsert(c) ==
  /\ saves[c].pc = "inserting"
  /\ LET sv == saves[c]
     IN /\ table' = table \cup { Batch(sv.userId, sv.fetchedAt, c, sv.i, sv.len) }
        /\ SaveStep(c, [ sv EXCEPT
                           !.i = sv.i + BATCH_SIZE,
                           !.pc = IF sv.i + BATCH_SIZE < sv.len
                                  THEN "inserting" ELSE "done" ])
  /\ UNCHANGED << before, clock, readBack, notSaveVars >>

\* The insert of the next batch of call c rejects.
SaveInsertReject(c) ==
  /\ saves[c].pc = "inserting"
  /\ SaveStep(c, [ saves[c] EXCEPT !.pc = "insert failed", !.error = SaveFailedMsg ])
  /\ UNCHANGED << before, table, clock, readBack, notSaveVars >>

SaveEnded(c) == saves[c].pc \in { "done", "delete failed", "insert failed" }

\* getCellarData(uid) once every call has ended.
SaveRead(uid) ==
  /\ \A c \in SaveCalls : SaveEnded(c)
  /\ readBack.user = Undefined
  /\ LET got == GetCellarData(table, uid, clock)
     IN readBack' = [ user |-> uid, found |-> got.found, data |-> got.data,
                      fetchedAt |-> got.fetchedAt ]
  /\ UNCHANGED << before, table, saves, clock, notSaveVars >>

SaveInit ==
  /\ AnalyticsIdle
  /\ PairIdle
  /\ TnIdle
  /\ RouteIdle
  /\ UiIdle
  /\ before \in { {}, Snapshot(SessionUser),
                  Snapshot(SessionUser) \cup Snapshot("u2") }
  /\ table = before
  /\ saves \in [ SaveCalls -> { NewSave(u, n) : u \in SaveUsers, n \in DataLens } ]
  /\ saves[1].userId = SessionUser
  /\ clock = 1
  /\ readBack = NotRead

SaveNext ==
  \/ \E c \in SaveCalls, adv \in { 0, 1 } : SaveDelete(c, adv)
  \/ \E c \in SaveCalls : SaveDeleteReject(c)
  \/ \E c \in SaveCalls : SaveInsert(c)
  \/ \E c \in SaveCalls : SaveInsertReject(c)
  \/ \E uid \in SaveUsers : SaveRead(uid)

SaveSpec == SaveInit /\ [][SaveNext]_vars

\* ------------------------------------------------ saveCellarData: claims
OtherSave(c) == 3 - c

RowsOf(rows, uid) == { r \in rows : r.userId = uid }

\* Call c ran while the other call did nothing.
RanAlone(c) == SaveEnded(c) /\ saves[OtherSave(c)].pc = "start"

\* rows hold one row per element of the data of call c, all with its fetchedAt.
CompleteSetOf(rows, c) ==
  /\ \A r \in rows :
       /\ r.call = c /\ r.userId = saves[c].userId
       /\ r.fetchedAt = saves[c].fetchedAt
       /\ 1 <= r.lo /\ r.lo <= r.hi /\ r.hi <= saves[c].len
  /\ \A k \in 1..saves[c].len :
       Cardinality({ r \in rows : r.lo <= k /\ k <= r.hi }) = 1

\* C23: after saveCellarData completed without error, run alone, the user's
\* rows are one row per element of data, all with the same fetchedAt, none of
\* the previous rows remain, and getCellarData returns exactly those rows.
C23_SaveReplacesSnapshot ==
  \A c \in SaveCalls :
    (RanAlone(c) /\ saves[c].pc = "done") =>
      LET uid == saves[c].userId
          mine == RowsOf(table, uid)
          got == GetCellarData(table, uid, clock)
      IN /\ CompleteSetOf(mine, c)
         /\ mine \cap before = {}
         /\ got.data = mine
         /\ got.found = (saves[c].len > 0)
         /\ got.found => got.fetchedAt = saves[c].fetchedAt
         /\ RowsOf(table, "u2") = RowsOf(before, "u2") \/ uid = "u2"

C23_Witness ==
  /\ RanAlone(1) /\ saves[1].pc = "done"
  /\ saves[1].len = 2 * BATCH_SIZE + 1
  /\ RowsOf(before, SessionUser) # {}
  /\ Cardinality(RowsOf(table, SessionUser)) = 3
  /\ RowsOf(table, "u2") # {}

AllSavesDone == \A c \in SaveCalls : saves[c].pc = "done"

\* The call whose fetchedAt is the latest.
LatestSave ==
  CHOOSE c \in SaveCalls : \A d \in SaveCalls : saves[d].fetchedAt <= saves[c].fetchedAt

\* C29: after any interleaving of saveCellarData calls for one user that all
\* complete, with distinct fetchedAt values, getCellarData returns the complete
\* data set of the call with the latest fetchedAt: no mixture, no strict subset.
C29_ReadBackIsLatestComplete ==
  ( /\ AllSavesDone
    /\ saves[1].userId = saves[2].userId
    /\ saves[1].fetchedAt # saves[2].fetchedAt
    /\ readBack.user = saves[1].userId ) =>
      /\ CompleteSetOf(readBack.data, LatestSave)
      /\ readBack.found = (saves[LatestSave].len > 0)

\* C30: when saveCellarData fails in a batch insert, the rows the user had
\* stored before are still present and getCellarData returns that snapshot.
C30_FailedSaveKeepsSnapshot ==
  \A c \in SaveCalls :
    (RanAlone(c) /\ saves[c].pc = "insert failed") =>
      LET uid == saves[c].userId
      IN /\ saves[c].error = SaveFailedMsg
         /\ RowsOf(before, uid) \subseteq table
         /\ GetCellarData(table, uid, clock).data = GetCellarData(before, uid, clock).data


\* ----------------------------------------------- ToolResultSummary: steps
\* useEffect(() => { ... }, [cacheKey]) of instance i, whose state after the
\* render is st: a truthy cached summary is shown, otherwise getSummary()
\* sets isLoading and issues the request.
RunEffect(i, st) ==
  LET cachedSummary == summaryCache[st.cacheKey] IN
  /\ IF Truthy(cachedSummary)
     THEN /\ inst' = [ inst EXCEPT ![i] =
                         [ st EXCEPT !.summary = cachedSummary,
                                     !.shownFor = st.cacheKey,
                                     !.isLoading = FALSE ] ]
          /\ UNCHANGED << inflight, issued >>
     ELSE /\ inst' = [ inst EXCEPT ![i] =
                         [ st EXCEPT !.isLoading = TRUE ] ]
          /\ inflight' = inflight \cup
                           { [ id |-> issued + 1, inst |-> i,
                               key |-> st.cacheKey, props |-> st.props ] }
          /\ issued' = issued + 1
  /\ UNCHANGED summaryCache

\* The first render of instance i and its effect.
UiMount(i, props) ==
  /\ inst[i].status = "new"
  /\ RunEffect(i, [ inst[i] EXCEPT !.status = "mounted", !.props = props,
                                   !.cacheKey = CacheKey(props) ])
  /\ UNCHANGED renders
  /\ UNCHANGED notUiVars

\* A render of instance i with new props: the state is kept and the effect
\* runs again when cacheKey changed.
UiRender(i, props) ==
  /\ inst[i].status = "mounted"
  /\ inst[i].props # props
  /\ renders < MaxRenders
  /\ renders' = renders + 1
  /\ LET st == [ inst[i] EXCEPT !.props = props, !.cacheKey = CacheKey(props) ] IN
     IF st.cacheKey # inst[i].cacheKey
     THEN RunEffect(i, st)
     ELSE /\ inst' = [ inst EXCEPT ![i] = st ]
          /\ UNCHANGED << summaryCache, inflight, issued >>
  /\ UNCHANGED notUiVars

\* Instance i is removed; its requests stay in flight.
UiUnmount(i) ==
  /\ inst[i].status = "mounted"
  /\ inst' = [ inst EXCEPT ![i].status = "gone" ]
  /\ UNCHANGED << summaryCache, inflight, issued, renders >>
  /\ UNCHANGED notUiVars

\* The continuation of getSummary() of request req with the text it got:
\* summaryCache.set(cacheKey, text); setSummary(text); setIsLoading(false).
\* cacheKey is the key of the render that issued the request; the setters
\* act on the instance while it is mounted.
Settle(req, text) ==
  /\ summaryCache' = [ summaryCache EXCEPT ![req.key] = text ]
  /\ inst' = [ inst EXCEPT ![req.inst] =
                 IF @.status = "mounted"
                 THEN [ @ EXCEPT !.summary = text, !.shownFor = req.key,
                                 !.isLoading = FALSE ]
                 ELSE @ ]
  /\ inflight' = inflight \ { req }
  /\ UNCHANGED << issued, renders >>

\* The response is ok and carries data.summary.
UiResponseOk(req, text) ==
  /\ req \in inflight
  /\ Settle(req, text)
  /\ UNCHANGED notUiVars

\* The fetch rejects or the response is not ok: the catch block.
UiResponseFail(req) ==
  /\ req \in inflight
  /\ Settle(req, FallbackSummary(req.props.result))
  /\ UNCHANGED notUiVars

UiInit ==
  /\ AnalyticsIdle
  /\ PairIdle
  /\ TnIdle
  /\ RouteIdle
  /\ SaveIdle
  /\ UiStart

UiNext ==
  \/ \E i \in Instances, props \in PropsSet : UiMount(i, props)
  \/ \E i \in Instances, props \in PropsSet : UiRender(i, props)
  \/ \E i \in Instances : UiUnmount(i)
  \/ \E req \in inflight, text \in SummaryTexts : UiResponseOk(req, text)
  \/ \E req \in inflight : UiResponseFail(req)

UiSpec == UiInit /\ [][UiNext]_vars

\* ---------------------------------------------- ToolResultSummary: claims
\* The effect of instance i ran in this step: its first render, or a render
\* that changed cacheKey.
EffectRan(i) ==
  /\ inst'[i].status = "mounted"
  /\ inst'[i].cacheKey # inst[i].cacheKey

\* C24: once summaryCache holds an entry for a key, including the fallback
\* of a failed request, every mount or effect run with that key shows the
\* cached text and issues no request.
C24_CachedKeyIssuesNoRequest ==
  [][ \A i \in Instances :
        (EffectRan(i) /\ summaryCache[inst'[i].cacheKey] # Absent)
          => /\ issued' = issued
             /\ inst'[i].summary = summaryCache[inst'[i].cacheKey]
             /\ ~inst'[i].isLoading ]_vars

\* C27: a response to the request of a previous key neither replaces the
\* text shown for the current key nor ends the loading state of the current
\* key: a mounted instance that is not loading shows the text of its current
\* key, and it is loading while the request of its latest effect run is in
\* flight.
C27_LateResponseIgnored ==
  \A i \in Instances :
    inst[i].status = "mounted"
      => /\ ~inst[i].isLoading => inst[i].shownFor = inst[i].cacheKey
         /\ (\E req \in inflight :
               /\ req.inst = i
               /\ req.key = inst[i].cacheKey
               /\ \A other \in inflight : other.inst = i => other.id <= req.id)
              => inst[i].isLoading

====
